---- MODULE Spec2Model ----
(***************************************************************************)
(* A model of the notebooks of Transformers_JAX_from_Scratch: the          *)
(* character tokenizer and batch sampler (data preparation cells), the     *)
(* language models (bigram, single-head, multi-head, transformer decoder,  *)
(* GPT-2), text generation and the training loop.                          *)
(*                                                                         *)
(* Floating point tensors are modelled in fixed point: a real r is the     *)
(* integer r * ONE.  jax.nn.softmax, nn.LayerNorm and head_size**-0.5 are  *)
(* library arithmetic and are modelled by their fixed point counterparts   *)
(* (exp(-inf) = 0, a row of softmax sums to about ONE, small values        *)
(* underflow to 0).                                                        *)
(***************************************************************************)
EXTENDS Integers, Sequences, FiniteSets, TLC

VARIABLES
    \* data preparation cells
    data,        \* the corpus read from input.txt: a sequence of characters (code points)
    tk_pc,       \* position in a tokenizer round trip
    tk_in,       \* the argument of the first conversion
    tk_mid,      \* the result of the first conversion
    tk_out,      \* the result of the second conversion
    tk_exc,      \* the exception the last conversion raised: <<>> or <<"KeyError", key>>
    batch_size,  \* get_batch's batch_size argument
    block_size,  \* get_batch's block_size argument
    bt_pc,       \* position in the batch cells: "start", "batch", "loop", "done"
    xb, yb,      \* the batch get_batch returned
    lp_b, lp_t,  \* the context/target loop's counters (the next b, t)
    shown,       \* <<b, t>> of the line the loop printed last
    context, target,  \* what the loop printed last
    \* training loop
    tr_pc,       \* position in the training cell
    tr_it,       \* how many values the for loop has taken from range(steps)
    step,        \* the loop variable
    rng_key,     \* the notebook's key: how many times it was split
    subkey,      \* the key the last split handed out
    n_batch,     \* get_batch calls made by the loop
    n_grad,      \* value_and_grad(loss_fn) evaluations made by the loop
    n_update,    \* optimizer.update / apply_updates pairs made by the loop
    variables,   \* the model parameters: how many updates they received
    printed,     \* the step indices printed, in order
    \* the model cells
    m_kind,      \* which notebook's model: "bigram", "single", "multi", "decoder", "gpt2"
    n_embed,     \* number of embedding dimensions
    num_heads,   \* number of heads in the multi-headed block
    head_size,   \* the single-headed model's head_size
    m_block,     \* the model's block_size
    m_x,         \* the input of the last model.apply, a (B, T) array of token ids
    logits,      \* its result
    m_xprev,     \* the input of the model.apply before it
    logits_prev, \* its result
    weights,     \* the attention weights of the first attention layer's heads in the last apply
    sa_dim,      \* last dimension of the first attention layer's output in the last apply
    m_edits,     \* how many tokens of the dummy input were changed
    \* the text generation cells
    g_pc,        \* position in generate: "off", "loop", "done"
    g_seed,      \* the index_seq the cell passed to generate, its only row
    max_new_tokens,  \* generate's max_new_tokens argument
    g_i,         \* iterations of generate's loop made so far
    g_index_seq, \* generate's running (1, L + g_i) array
    index_cond,  \* the cropped context of the last iteration
    g_logits,    \* the logits of the last position in the last iteration
    generated_indices,  \* list(np.array(generate(...)[0]))
    g_text,      \* decode(generated_indices)
    \* a run of the whole notebook
    nb_pc,       \* the cell the run is at: "off", "pre", "pre_gen", "train", "post_gen", "end"
    gen_used,    \* for each generate call so far, the updates `variables` had received
    \* a call of one transformer decoder Block
    blk_pc,      \* "off", "start", "called", "shifted"
    blk_layer,   \* which Block of the nn.Sequential is called
    blk_x,       \* the input of the last call, a (B, T, C) array
    blk_out,     \* its result
    blk_xprev,   \* the input of the call before it
    blk_outprev, \* its result
    \* the download / read cell and the file system
    dl_pc,       \* "off", "start", "open_w", "request", "read", "done", "aborted"
    dl_dir,      \* whether the directory ./data/shakespeare_char exists
    dl_file,     \* ./data/shakespeare_char/input.txt: <<>> if absent, <<content>> if present
    dl_remote,   \* the text the data_url serves
    dl_existed,  \* what os.path.exists returned in this run
    dl_exc,      \* the exception that aborted this run, "" if none
    n_requests,  \* HTTP requests issued so far, over all runs
    dl_runs,     \* runs of the cell started so far
    dl_results   \* for each completed run: its data, chars, train_ids and n_requests

tokVars == <<tk_pc, tk_in, tk_mid, tk_out, tk_exc>>
batchVars == <<batch_size, block_size, bt_pc, xb, yb, lp_b, lp_t, shown, context, target>>
trainVars == <<tr_pc, tr_it, step, rng_key, subkey, n_batch, n_grad, n_update, variables, printed>>
modelVars == <<m_kind, n_embed, num_heads, head_size, m_block, m_x, logits, m_xprev,
               logits_prev, weights, sa_dim, m_edits>>

genVars == <<g_pc, g_seed, max_new_tokens, g_i, g_index_seq, index_cond, g_logits,
             generated_indices, g_text>>

nbVars == <<nb_pc, gen_used>>

blkVars == <<blk_pc, blk_layer, blk_x, blk_out, blk_xprev, blk_outprev>>

dlVars == <<dl_pc, dl_dir, dl_file, dl_remote, dl_existed, dl_exc, n_requests, dl_runs,
            dl_results>>

vars == <<data, tokVars, batchVars, trainVars, modelVars, genVars, nbVars, blkVars, dlVars>>

\* What the cells of one part of the notebook leave alone.
nonTokVars == <<data, batchVars, trainVars, modelVars, genVars, nbVars, blkVars, dlVars>>
nonBatchVars == <<data, tokVars, trainVars, modelVars, genVars, nbVars, blkVars, dlVars>>
nonTrainVars == <<data, tokVars, batchVars, modelVars, genVars, nbVars, blkVars, dlVars>>
nonModelVars == <<data, tokVars, batchVars, trainVars, genVars, nbVars, blkVars, dlVars>>
nonGenVars == <<data, tokVars, batchVars, trainVars, modelVars, nbVars, blkVars, dlVars>>

----------------------------------------------------------------------------
(* Bounds of the model *)

MaxLen == 3        \* longest string / id list given to encode and decode
MaxBatch == 2      \* largest batch_size
MaxBlock == 2      \* largest block_size
MaxEmbed == 2      \* largest n_embed
MaxHeads == 2      \* largest num_heads
MaxEdits == 1      \* most tokens of the dummy input changed before a model.apply
MaxSeed == 2       \* longest seed given to generate
MaxNew == 3        \* largest max_new_tokens
MaxRuns == 3       \* most runs of the download / read cell

----------------------------------------------------------------------------
(* Generic helpers *)

Min(S) == CHOOSE m \in S : \A o \in S : m <= o

Range(f) == {f[i] : i \in DOMAIN f}

SeqsUpTo(S, n) == UNION {[1..k -> S] : k \in 0..n}

----------------------------------------------------------------------------
(* Data preparation: the corpus, the vocabulary, encode and decode *)

\* Small corpora standing for input.txt (10 = newline, 32 = space, 97.. = letters).
Corpora ==
    { <<98, 97, 10, 97, 98, 98, 10, 97, 98, 97>>,
      <<99, 97, 32, 97, 99, 10, 32, 99, 97, 32, 10>> }

RECURSIVE sorted(_)
sorted(S) == IF S = {} THEN <<>>
             ELSE LET m == Min(S) IN <<m>> \o sorted(S \ {m})

\* chars = sorted(list(set(data)))
chars(d) == sorted(Range(d))

\* vocab_size = len(chars)
vocab_size(d) == Len(chars(d))

\* stoi = { ch:i for i,ch in enumerate(chars) }
stoi(d) == [ch \in Range(d) |-> CHOOSE i \in 0..(vocab_size(d) - 1) : chars(d)[i + 1] = ch]

\* itos = { i:ch for i,ch in enumerate(chars) }
itos_shifted(d) == [i \in 0..(vocab_size(d) - 1) |-> chars(d)[((i + 1) % vocab_size(d)) + 1]]
itos(d) == [i \in 0..(vocab_size(d) - 1) |-> chars(d)[i + 1]]

\* encode(s) = [stoi[c] for c in s]
encode(d, s) == [i \in 1..Len(s) |-> stoi(d)[s[i]]]

\* decode(l) = ''.join([itos[i] for i in l])
decode(d, l) == [i \in 1..Len(l) |-> itos(d)[l[i]]]

\* train_data = data[:int(n*0.9)]; train_ids = encode(train_data)
train_ids(d) == encode(d, SubSeq(d, 1, (Len(d) * 9) \div 10))

----------------------------------------------------------------------------
(* The tokenizer round trips: decode(encode(s)) and encode(decode(l)) *)

\* Strings made of characters that occur in the dataset.
Strings(d) == SeqsUpTo(Range(d), MaxLen)

\* Lists of ids in 0..vocab_size-1.
IdLists(d) == SeqsUpTo(0..(vocab_size(d) - 1), MaxLen)

TokIdle == tk_pc = "idle" /\ tk_in = <<>> /\ tk_mid = <<>> /\ tk_out = <<>> /\ tk_exc = <<>>

\* ids = encode(s)
Encode(s) ==
    /\ tk_pc = "idle"
    /\ tk_in' = s
    /\ tk_mid' = encode(data, s)
    /\ tk_pc' = "encoded"
    /\ UNCHANGED <<tk_out, tk_exc, nonTokVars>>

\* decode(ids), ids the result of encode(s)
DecodeBack ==
    /\ tk_pc = "encoded"
    /\ tk_out' = decode(data, tk_mid)
    /\ tk_pc' = "dec_of_enc"
    /\ UNCHANGED <<tk_in, tk_mid, tk_exc, nonTokVars>>

\* text = decode(l)
Decode(l) ==
    /\ tk_pc = "idle"
    /\ tk_in' = l
    /\ tk_mid' = decode(data, l)
    /\ tk_pc' = "decoded"
    /\ UNCHANGED <<tk_out, tk_exc, nonTokVars>>

\* encode(text), text the result of decode(l)
EncodeBack ==
    /\ tk_pc = "decoded"
    /\ tk_out' = encode(data, tk_mid)
    /\ tk_pc' = "enc_of_dec"
    /\ UNCHANGED <<tk_in, tk_mid, tk_exc, nonTokVars>>

BatchIdle ==
    /\ batch_size = 0 /\ block_size = 0 /\ bt_pc = "off"
    /\ xb = <<>> /\ yb = <<>> /\ lp_b = 0 /\ lp_t = 0
    /\ shown = <<>> /\ context = <<>> /\ target = -1

TrainIdle ==
    /\ tr_pc = "off" /\ tr_it = 0 /\ step = -1 /\ rng_key = 0 /\ subkey = -1
    /\ n_batch = 0 /\ n_grad = 0 /\ n_update = 0 /\ variables = 0 /\ printed = <<>>

ModelIdle ==
    /\ m_kind = "off" /\ n_embed = 0 /\ num_heads = 0 /\ head_size = 0 /\ m_block = 0
    /\ m_x = <<>> /\ logits = <<>> /\ m_xprev = <<>> /\ logits_prev = <<>>
    /\ weights = <<>> /\ sa_dim = 0 /\ m_edits = 0

GenIdle ==
    /\ g_pc = "off" /\ g_seed = <<>> /\ max_new_tokens = 0 /\ g_i = 0
    /\ g_index_seq = <<>> /\ index_cond = <<>> /\ g_logits = <<>>
    /\ generated_indices = <<>> /\ g_text = <<>>

NbIdle == nb_pc = "off" /\ gen_used = <<>>

DlIdle ==
    /\ dl_pc = "off" /\ dl_dir = TRUE /\ dl_file = <<data>> /\ dl_remote = data
    /\ dl_existed = TRUE /\ dl_exc = "" /\ n_requests = 0 /\ dl_runs = 0
    /\ dl_results = <<>>

BlkIdle ==
    /\ blk_pc = "off" /\ blk_layer = 0 /\ blk_x = <<>> /\ blk_out = <<>>
    /\ blk_xprev = <<>> /\ blk_outprev = <<>>

InitTok ==
    /\ data \in Corpora
    /\ TokIdle
    /\ BatchIdle
    /\ TrainIdle
    /\ ModelIdle
    /\ GenIdle
    /\ NbIdle
    /\ BlkIdle
    /\ DlIdle

NextTok ==
    \/ \E s \in Strings(data) : Encode(s)
    \/ DecodeBack
    \/ \E l \in IdLists(data) : Decode(l)
    \/ EncodeBack

SpecTok == InitTok /\ [][NextTok]_vars

\* C6: encode and decode are inverse on the corpus alphabet: decode(encode(s)) = s
\* for every string s of characters of the dataset, and encode(decode(l)) = l for
\* every list l of ids in 0..vocab_size-1.
EncodeDecodeInverse ==
    /\ tk_pc = "dec_of_enc" => tk_out = tk_in
    /\ tk_pc = "enc_of_dec" => tk_out = tk_in

\* A round trip of a full-length argument holding two different elements, whose
\* intermediate form differs from it (the conversion is not the identity).
EncodeDecodeWitness ==
    /\ tk_pc \in {"dec_of_enc", "enc_of_dec"}
    /\ Len(tk_in) = MaxLen
    /\ tk_in[1] # tk_in[2]
    /\ tk_mid # tk_in

----------------------------------------------------------------------------
(* get_batch and the context/target loop (bigram notebook) *)

\* The offsets get_batch may draw, one per row: every window and its shifted
\* twin lie inside the data.
get_batch_offsets(ids, bsz, blk) == [1..bsz -> 0..(Len(ids) - blk - 1)]

\* xb: row b is ids[i : i+block_size] for the row's offset i.
get_batch_x(ids, ixs, blk) ==
    [b \in DOMAIN ixs |-> SubSeq(ids, ixs[b] + 1, ixs[b] + blk)]

\* yb: row b is ids[i+1 : i+block_size+1].
get_batch_y(ids, ixs, blk) ==
    [b \in DOMAIN ixs |-> SubSeq(ids, ixs[b] + 2, ixs[b] + blk + 1)]

\* context = xb[b, :t+1]
loop_context(x, b, t) == SubSeq(x[b + 1], 1, t + 1)

\* target = yb[b, t]
loop_target_from_x(x, y, b, t) == x[b + 1][t + 1]
loop_target(x, y, b, t) == y[b + 1][t + 1]

\* xb, yb = get_batch(train_ids, rng_key, batch_size, block_size)
GetBatch ==
    /\ bt_pc = "start"
    /\ \E ixs \in get_batch_offsets(train_ids(data), batch_size, block_size) :
          /\ xb' = get_batch_x(train_ids(data), ixs, block_size)
          /\ yb' = get_batch_y(train_ids(data), ixs, block_size)
    /\ bt_pc' = "batch"
    /\ UNCHANGED <<nonBatchVars, batch_size, block_size, lp_b, lp_t, shown, context, target>>

\* One iteration of: for b in range(batch_size): for t in range(block_size): print
LoopStep ==
    /\ bt_pc \in {"batch", "loop"}
    /\ lp_b < batch_size
    /\ context' = loop_context(xb, lp_b, lp_t)
    /\ target' = loop_target(xb, yb, lp_b, lp_t)
    /\ shown' = <<lp_b, lp_t>>
    /\ IF lp_t + 1 < block_size
         THEN lp_t' = lp_t + 1 /\ lp_b' = lp_b
         ELSE lp_t' = 0 /\ lp_b' = lp_b + 1
    /\ bt_pc' = "loop"
    /\ UNCHANGED <<nonBatchVars, batch_size, block_size, xb, yb>>

\* The loop ends after the last row.
LoopEnd ==
    /\ bt_pc \in {"batch", "loop"}
    /\ lp_b >= batch_size
    /\ bt_pc' = "done"
    /\ UNCHANGED <<nonBatchVars, batch_size, block_size, xb, yb, lp_b, lp_t, shown, context, target>>

InitBatch ==
    /\ data \in Corpora
    /\ TokIdle
    /\ batch_size \in 1..MaxBatch
    /\ block_size \in 1..MaxBlock
    /\ bt_pc = "start"
    /\ xb = <<>> /\ yb = <<>> /\ lp_b = 0 /\ lp_t = 0
    /\ shown = <<>> /\ context = <<>> /\ target = -1
    /\ TrainIdle
    /\ ModelIdle
    /\ GenIdle
    /\ NbIdle
    /\ BlkIdle
    /\ DlIdle

NextBatch == GetBatch \/ LoopStep \/ LoopEnd

SpecBatch == InitBatch /\ [][NextBatch]_vars

\* Whether w occurs in ids at 0-based offset i, followed by token nxt.
FollowsIn(ids, w, nxt) ==
    \E i \in 0..(Len(ids) - Len(w) - 1) :
        /\ SubSeq(ids, i + 1, i + Len(w)) = w
        /\ ids[i + Len(w) + 1] = nxt

----------------------------------------------------------------------------
(* The training loop *)

\* steps = 100
steps == 100

\* range(steps), as the sequence of values the for loop takes
range_from_one == [i \in 1..steps |-> i]
range_steps == [i \in 1..steps |-> i - 1]

\* for step in range(steps): take the next value, or leave the loop
TrainFor ==
    /\ tr_pc = "for"
    /\ IF tr_it < Len(range_steps)
         THEN /\ step' = range_steps[tr_it + 1]
              /\ tr_it' = tr_it + 1
              /\ tr_pc' = "split"
         ELSE /\ tr_pc' = "done"
              /\ UNCHANGED <<step, tr_it>>
    /\ UNCHANGED <<rng_key, subkey, n_batch, n_grad, n_update, variables, printed, nonTrainVars>>

\* rng_key, subkey = jax.random.split(rng_key)
TrainSplit ==
    /\ tr_pc = "split"
    /\ rng_key' = rng_key + 1
    /\ subkey' = rng_key
    /\ tr_pc' = "get_batch"
    /\ UNCHANGED <<tr_it, step, n_batch, n_grad, n_update, variables, printed, nonTrainVars>>

\* xb, yb = get_batch(train_ids, subkey, batch_size, block_size)
TrainGetBatch ==
    /\ tr_pc = "get_batch"
    /\ n_batch' = n_batch + 1
    /\ tr_pc' = "grad"
    /\ UNCHANGED <<tr_it, step, rng_key, subkey, n_grad, n_update, variables, printed, nonTrainVars>>

\* loss, grads = value_and_grad(loss_fn, argnums=(0))(variables, model.apply, xb, yb)
TrainGrad ==
    /\ tr_pc = "grad"
    /\ n_grad' = n_grad + 1
    /\ tr_pc' = "update"
    /\ UNCHANGED <<tr_it, step, rng_key, subkey, n_batch, n_update, variables, printed, nonTrainVars>>

\* updates, opt_state = optimizer.update(grads, opt_state, variables)
\* variables = optax.apply_updates(variables, updates)
TrainUpdate_discard ==
    /\ tr_pc = "update"
    /\ n_update' = n_update + 1
    /\ tr_pc' = "print"
    /\ UNCHANGED <<tr_it, step, rng_key, subkey, n_batch, n_grad, variables, printed, nonTrainVars>>
TrainUpdate ==
    /\ tr_pc = "update"
    /\ n_update' = n_update + 1
    /\ variables' = variables + 1
    /\ tr_pc' = "print"
    /\ UNCHANGED <<tr_it, step, rng_key, subkey, n_batch, n_grad, printed, nonTrainVars>>

\* print(f"Epoch: {step}, Loss: {loss :.4f}")
TrainPrint ==
    /\ tr_pc = "print"
    /\ printed' = Append(printed, step)
    /\ tr_pc' = "for"
    /\ UNCHANGED <<tr_it, step, rng_key, subkey, n_batch, n_grad, n_update, variables, nonTrainVars>>

InitTrain ==
    /\ data \in Corpora
    /\ TokIdle
    /\ BatchIdle
    /\ tr_pc = "for" /\ tr_it = 0 /\ step = -1 /\ rng_key = 0 /\ subkey = -1
    /\ n_batch = 0 /\ n_grad = 0 /\ n_update = 0 /\ variables = 0 /\ printed = <<>>
    /\ ModelIdle
    /\ GenIdle
    /\ NbIdle
    /\ BlkIdle
    /\ DlIdle

NextTrain ==
    \/ TrainFor
    \/ TrainSplit
    \/ TrainGetBatch
    \/ TrainGrad
    \/ TrainUpdate
    \/ TrainPrint

SpecTrain == InitTrain /\ [][NextTrain]_vars

\* A notebook cell runs to completion: single-threaded and synchronous, every
\* statement that can run does.
SpecTrainFair == SpecTrain /\ WF_vars(NextTrain)

\* The calls made and the lines printed so far: one of each per iteration begun,
\* and the indices 0, 1, ... in order.
TrainCounts ==
    /\ printed = [i \in 1..Len(printed) |-> i - 1]
    /\ tr_pc = "done" =>
          /\ Len(printed) = steps
          /\ tr_it = steps
          /\ n_batch = steps /\ n_grad = steps /\ n_update = steps
    /\ tr_pc = "for" =>
          /\ Len(printed) = tr_it
          /\ n_batch = tr_it /\ n_grad = tr_it /\ n_update = tr_it
    /\ tr_pc \in {"split", "get_batch", "grad", "update", "print"} =>
          /\ step = tr_it - 1
          /\ Len(printed) = tr_it - 1
          /\ n_batch = tr_it - (IF tr_pc \in {"split", "get_batch"} THEN 1 ELSE 0)
          /\ n_grad = tr_it - (IF tr_pc \in {"split", "get_batch", "grad"} THEN 1 ELSE 0)
          /\ n_update = tr_it - (IF tr_pc = "print" THEN 0 ELSE 1)

\* C10: the training loop always terminates; it performs exactly `steps`
\* iterations, each making exactly one get_batch call, one loss/gradient
\* evaluation and one optimizer update, and it reports the step indices
\* 0, 1, ..., steps-1 in increasing order, none skipped or repeated.
TrainLoopTerminates == <>(tr_pc = "done") /\ []TrainCounts

\* The loop has ended, after its last iteration printed steps-1.
TrainLoopWitness ==
    /\ tr_pc = "done"
    /\ Len(printed) = steps
    /\ printed[steps] = steps - 1
    /\ variables = steps

----------------------------------------------------------------------------
(* Tensors in fixed point.  A (B, T, C) array is a sequence of B sequences  *)
(* of T sequences of C integers; the real r is the integer r * ONE.         *)

ONE == 16

\* An array held by value: every element computed once, when the array is built.
Strict(f) == f \o <<>>

RECURSIVE SumSeq(_)
SumSeq(s) == IF s = <<>> THEN 0 ELSE s[1] + SumSeq(Tail(s))

Dot(a, b) == SumSeq(Strict([i \in 1..Len(a) |-> a[i] * b[i]]))

Max(S) == CHOOSE m \in S : \A o \in S : m >= o

\* The integer square root: the model's sqrt.
Isqrt(n) == CHOOSE r \in 0..n : r * r <= n /\ n < (r + 1) * (r + 1)

\* Floats that may be infinite: <<TRUE, v>> is the finite v, NegInf is -jnp.inf.
Fin(v) == <<TRUE, v>>
NegInf == <<FALSE, 0>>

\* exp(d) for d <= 0 in fixed point, 1 / (1 + u + u^2/2) with u = -d;
\* exp(-inf) = 0, and a large negative d underflows to 0.
exp_fp(e) ==
    IF ~e[1] THEN 0
    ELSE LET u == 0 - e[2]
         IN (ONE * ONE) \div (ONE + u + (u * u) \div (2 * ONE))

\* The parameters (flax `variables`): model.init draws them from rng_key, the
\* optimizer moves them.  A parameter is a fixed pseudo-random function of its
\* path in the module tree, its index and the number v of updates received.
RECURSIVE PathCode(_)
PathCode(path) ==
    IF path = <<>> THEN 1
    ELSE (PathCode(Tail(path)) * 31 + path[1] * 7 + 3) % 1009

Param(v, path, i, j) ==
    ((PathCode(path) * 7 + i * 13 + j * 29 + i * j * 5 + v * 3) % (2 * ONE + 1)) - ONE

\* nn.Embed(num_embeddings, features)(idx): row idx of the table (ids are 0-based).
Embed(v, path, features, idx) == Strict([c \in 1..features |-> Param(v, path, idx + 1, c)])

\* The kernel (rows 1..n_in) and the bias (row 0) of a Dense layer.
kernel(v, path, n_in, features) ==
    Strict([i \in 1..n_in |-> Strict([j \in 1..features |-> Param(v, path, i, j)])])

bias(v, path, features) == Strict([j \in 1..features |-> Param(v, path, 0, j)])

\* nn.Dense(features, use_bias)(x) on a (B, T, C) array: x @ kernel + bias; the
\* kernel's input dimension is that of x.
Dense(v, path, features, use_bias, x) ==
    LET n_in == Len(x[1][1])
        W == kernel(v, path, n_in, features)
        bi == bias(v, path, features)
    IN Strict([b \in 1..Len(x) |-> Strict([t \in 1..Len(x[b]) |-> Strict([j \in 1..features |->
          SumSeq(Strict([i \in 1..n_in |-> x[b][t][i] * W[i][j]])) \div ONE
          + (IF use_bias THEN bi[j] ELSE 0)])])])

\* nn.LayerNorm()(x): each position's features normalised to mean 0, variance 1
\* (scale 1 and bias 0, as initialised).
LayerNorm(x) ==
    Strict([b \in 1..Len(x) |-> Strict([t \in 1..Len(x[b]) |->
        LET row == x[b][t]
            n == Len(row)
            mean == SumSeq(row) \div n
            var == SumSeq(Strict([i \in 1..n |-> (row[i] - mean) * (row[i] - mean)])) \div n
            sd == Isqrt(var) + 1
        IN Strict([i \in 1..n |-> ((row[i] - mean) * ONE) \div sd])])])

\* jax.nn.relu
relu(x) == Strict([b \in 1..Len(x) |-> Strict([t \in 1..Len(x[b]) |-> Strict([i \in 1..Len(x[b][t]) |->
              IF x[b][t][i] > 0 THEN x[b][t][i] ELSE 0])])])

\* x + y on (B, T, C) arrays
Add(x, y) == Strict([b \in 1..Len(x) |-> Strict([t \in 1..Len(x[b]) |-> Strict([i \in 1..Len(x[b][t]) |->
                x[b][t][i] + y[b][t][i]])])])

----------------------------------------------------------------------------
(* Self-attention *)

\* tril = jnp.tril(jnp.ones(shape=(T, T), dtype=bool)), repeated B times:
\* tril[b][t][s] is whether position t may look at position s.
tril_ones(B, T) == Strict([b \in 1..B |-> Strict([t \in 1..T |-> Strict([s \in 1..T |-> TRUE])])])
tril_k1(B, T) == Strict([b \in 1..B |-> Strict([t \in 1..T |-> Strict([s \in 1..T |-> s <= t + 1])])])
tril(B, T) == Strict([b \in 1..B |-> Strict([t \in 1..T |-> Strict([s \in 1..T |-> s <= t])])])

\* masked_fill(mask, a, fill): a where the mask holds, fill elsewhere.
masked_fill(mask, a, fill) ==
    Strict([b \in 1..Len(a) |-> Strict([t \in 1..Len(a[b]) |-> Strict([s \in 1..Len(a[b][t]) |->
        IF mask[b][t][s] THEN Fin(a[b][t][s]) ELSE fill])])])

\* The finite values of a set of floats.
Finite(S) == {e[2] : e \in {f \in S : f[1]}}

\* exp(e - m) of every element of a row, m the largest finite one.
ShiftedExp(row) ==
    LET m == Max(Finite(Range(row)))
    IN Strict([s \in 1..Len(row) |-> exp_fp(IF row[s][1] THEN Fin(row[s][2] - m) ELSE NegInf)])

\* jax.nn.softmax(w, axis=-1) of a (B, T, T) array
softmax_axis0(w) ==
    LET e == Strict([b \in 1..Len(w) |-> Strict([t \in 1..Len(w[b]) |-> ShiftedExp(w[b][t])])])
    IN Strict([b \in 1..Len(w) |-> Strict([t \in 1..Len(w[b]) |-> Strict([s \in 1..Len(w[b][t]) |->
          LET tot == SumSeq(Strict([c \in 1..Len(w) |-> e[c][t][s]]))
          IN IF tot = 0 THEN 0 ELSE (e[b][t][s] * ONE) \div tot])])])
softmax(w) ==
    Strict([b \in 1..Len(w) |-> Strict([t \in 1..Len(w[b]) |->
        LET e == ShiftedExp(w[b][t])
            tot == SumSeq(e)
        IN Strict([s \in 1..Len(e) |-> (e[s] * ONE) \div tot])])])

\* weights = q @ k.transpose((0, -1, -2)) * head_size**-0.5
Scores(q, k, hs) ==
    Strict([b \in 1..Len(q) |-> Strict([t \in 1..Len(q[b]) |-> Strict([s \in 1..Len(k[b]) |->
        ((Dot(q[b][t], k[b][s]) \div ONE) * ONE) \div Isqrt(hs * ONE * ONE)])])])

\* Head: the attention weights after masked_fill and softmax (Dense_0 is key,
\* Dense_1 is query).
HeadWeights(v, path, hs, x) ==
    LET B == Len(x)
        T == Len(x[1])
        k == Dense(v, <<0>> \o path, hs, FALSE, x)
        q == Dense(v, <<1>> \o path, hs, FALSE, x)
    IN softmax(masked_fill(tril(B, T), Scores(q, k, hs), NegInf))

\* out = weights @ v
MatMul(w, val) ==
    Strict([b \in 1..Len(w) |-> Strict([t \in 1..Len(w[b]) |-> Strict([c \in 1..Len(val[b][1]) |->
        SumSeq(Strict([s \in 1..Len(w[b][t]) |-> w[b][t][s] * val[b][s][c]])) \div ONE])])])

\* Head.__call__ (Dense_2 is value; the GPT-2 Head's Dropout is deterministic,
\* the identity)
HeadCall(v, path, hs, x) ==
    MatMul(HeadWeights(v, path, hs, x),
           Dense(v, <<2>> \o path, hs, FALSE, x))

\* jnp.concatenate(heads_out, axis=-1)
RECURSIVE concatenate(_)
concatenate(outs) ==
    IF Len(outs) = 1 THEN outs[1]
    ELSE LET rest == concatenate(Tail(outs))
         IN Strict([b \in 1..Len(outs[1]) |-> Strict([t \in 1..Len(outs[1][b]) |->
                outs[1][b][t] \o rest[b][t]])])

\* MultiHeadedAttention.__call__ (multi-headed notebook): num_heads heads on the
\* same input, concatenated.
MultiHeadedAttention(v, path, nh, hs, x) ==
    concatenate(Strict([h \in 1..nh |-> HeadCall(v, <<h>> \o path, hs, x)]))

\* MultiHeadedAttention.__call__ (transformer decoder, GPT-2): the concatenated
\* heads projected by Dense(n_embed); the GPT-2 Dropout is the identity.
MultiHeadedAttentionProj(v, path, nh, hs, ne, x) ==
    Dense(v, <<9>> \o path, ne, TRUE,
          MultiHeadedAttention(v, path, nh, hs, x))

\* FeedForward.__call__: Dense(4 * n_embed), relu, Dense(n_embed)
FeedForward(v, path, ne, x) ==
    Dense(v, <<11>> \o path, ne, TRUE,
          relu(Dense(v, <<10>> \o path, 4 * ne, TRUE, x)))

\* head_size = n_embed // num_heads
head_size_full(ne, nh) == ne
head_size_of(ne, nh) == ne \div nh

\* Block.__call__: x = x + sa_heads(LayerNorm(x)); x = x + ffwd(LayerNorm(x))
Block_postnorm(v, path, ne, nh, x) ==
    LET x1 == LayerNorm(Add(x, MultiHeadedAttentionProj(v, path, nh,
                                  head_size_of(ne, nh), ne, x)))
    IN LayerNorm(Add(x1, FeedForward(v, path, ne, x1)))
Block(v, path, ne, nh, x) ==
    LET x1 == Add(x, MultiHeadedAttentionProj(v, path, nh,
                        head_size_of(ne, nh), ne, LayerNorm(x)))
    IN Add(x1, FeedForward(v, path, ne, LayerNorm(x1)))

\* nn.Sequential of n Blocks (Block_0 first)
RECURSIVE Blocks(_, _, _, _, _)
Blocks(v, n, ne, nh, x) ==
    IF n = 0 THEN x
    ELSE Block(v, <<n - 1, 20>>, ne, nh,
               Blocks(v, n - 1, ne, nh, x))

\* x = token_emb + pos_emb, pos_emb = position_embedding_table(jnp.arange(T))
Embedding(v, vocab, ne, blk, index_seq) ==
    Strict([b \in 1..Len(index_seq) |-> Strict([t \in 1..Len(index_seq[b]) |->
        LET tok == Embed(v, <<30>>, ne, index_seq[b][t])
            pos == Embed(v, <<31>>, ne, t - 1)
        IN Strict([c \in 1..ne |-> tok[c] + pos[c]])])])

----------------------------------------------------------------------------
(* The language models *)

\* num_layers = 6
num_layers == 6

\* lm_head = nn.Dense(self.vocab_size); logits = lm_head(x)
lm_head_embed(v, vocab, x) == Dense(v, <<32>>, Len(x[1][1]), TRUE, x)
lm_head(v, vocab, x) == Dense(v, <<32>>, vocab, TRUE, x)

\* BigramLanguageModel.__call__: nn.Embed(vocab_size, vocab_size)(x)
Bigram_prev_position(v, vocab, x) ==
    Strict([b \in 1..Len(x) |-> Strict([t \in 1..Len(x[b]) |->
        Embed(v, <<40>>, vocab, x[b][IF t > 1 THEN t - 1 ELSE t])])])
BigramLanguageModel(v, vocab, x) ==
    Strict([b \in 1..Len(x) |-> Strict([t \in 1..Len(x[b]) |-> Embed(v, <<40>>, vocab, x[b][t])])])

\* AttentionLanguageModel.__call__ (scaled self-attention notebook)
AttentionLanguageModel_single(v, vocab, ne, blk, hs, index_seq) ==
    lm_head(v, vocab, HeadCall(v, <<50>>, hs, Embedding(v, vocab, ne, blk, index_seq)))

\* AttentionLanguageModel.__call__ (multi-headed notebook)
AttentionLanguageModel_multi(v, vocab, ne, blk, nh, index_seq) ==
    lm_head(v, vocab, MultiHeadedAttention(v, <<51>>, nh, head_size_of(ne, nh),
                                           Embedding(v, vocab, ne, blk, index_seq)))

\* AttentionLanguageModel.__call__ (transformer decoder notebook): three Blocks
\* and a LayerNorm
AttentionLanguageModel_decoder(v, vocab, ne, blk, nh, index_seq) ==
    lm_head(v, vocab, LayerNorm(Blocks(v, 3, ne, nh, Embedding(v, vocab, ne, blk, index_seq))))

\* GPT2.__call__: num_layers Blocks and a LayerNorm
GPT2(v, vocab, ne, blk, nh, nl, index_seq) ==
    lm_head(v, vocab, LayerNorm(Blocks(v, nl, ne, nh, Embedding(v, vocab, ne, blk, index_seq))))

Kinds == {"bigram", "single", "multi", "decoder", "gpt2"}
AttentionKinds == Kinds \ {"bigram"}

\* model.apply(variables, x) of the notebook's model
Apply(kind, v, vocab, ne, blk, nh, hs, x) ==
    CASE kind = "bigram" -> BigramLanguageModel(v, vocab, x)
      [] kind = "single" -> AttentionLanguageModel_single(v, vocab, ne, blk, hs, x)
      [] kind = "multi" -> AttentionLanguageModel_multi(v, vocab, ne, blk, nh, x)
      [] kind = "decoder" -> AttentionLanguageModel_decoder(v, vocab, ne, blk, nh, x)
      [] kind = "gpt2" -> GPT2(v, vocab, ne, blk, nh, num_layers, x)

\* The attention weights of the heads of the model's first attention layer.
FirstWeights(kind, v, vocab, ne, blk, nh, hs, x) ==
    LET emb == Embedding(v, vocab, ne, blk, x)
    IN CASE kind = "bigram" -> <<>>
         [] kind = "single" -> <<HeadWeights(v, <<50>>, hs, emb)>>
         [] kind = "multi" ->
              [h \in 1..nh |-> HeadWeights(v, <<h, 51>>, head_size_of(ne, nh), emb)]
         [] kind \in {"decoder", "gpt2"} ->
              [h \in 1..nh |-> HeadWeights(v, <<h, 0, 20>>, head_size_of(ne, nh), LayerNorm(emb))]

\* The last dimension of the first attention layer's output (for the multi-headed
\* layers, of combined_logits).
FirstAttnDim(kind, v, vocab, ne, blk, nh, hs, x) ==
    LET emb == Embedding(v, vocab, ne, blk, x)
    IN CASE kind = "bigram" -> 0
         [] kind = "single" -> Len(HeadCall(v, <<50>>, hs, emb)[1][1])
         [] kind = "multi" ->
              Len(MultiHeadedAttention(v, <<51>>, nh, head_size_of(ne, nh), emb)[1][1])
         [] kind \in {"decoder", "gpt2"} ->
              Len(MultiHeadedAttention(v, <<0, 20>>, nh, head_size_of(ne, nh), LayerNorm(emb))[1][1])

\* dummy_x = jnp.zeros(shape=(batch_size, block_size), dtype=jnp.uint16)
zeros(B, T) == [b \in 1..B |-> [t \in 1..T |-> 0]]

\* The model configurations: the multi-headed model with every n_embed and
\* num_heads that leave head_size >= 1, the single-headed one with its own
\* head_size, the others with the largest dimensions.
Configs ==
    { c \in [kind : Kinds, ne : 1..MaxEmbed, nh : 1..MaxHeads, hs : 0..MaxEmbed] :
        \/ c.kind = "bigram" /\ c.ne = 1 /\ c.nh = 1 /\ c.hs = 0
        \/ c.kind = "single" /\ c.ne = MaxEmbed /\ c.nh = 1 /\ c.hs \in {1, MaxEmbed}
        \/ c.kind = "multi" /\ c.nh <= c.ne /\ c.hs = 0
        \/ c.kind \in {"decoder", "gpt2"} /\ c.ne = MaxEmbed /\ c.nh = MaxHeads /\ c.hs = 0 }

\* model = ...(vocab_size, n_embed, block_size, ...); variables = model.init(...);
\* out = model.apply(variables, dummy_x)
InitModel ==
    /\ data = CHOOSE d \in Corpora : vocab_size(d) = 3
    /\ TokIdle
    /\ BatchIdle
    /\ tr_pc = "off" /\ tr_it = 0 /\ step = -1 /\ rng_key = 0 /\ subkey = -1
    /\ n_batch = 0 /\ n_grad = 0 /\ n_update = 0 /\ printed = <<>>
    /\ variables = 0
    /\ \E c \in Configs :
          /\ m_kind = c.kind /\ n_embed = c.ne /\ num_heads = c.nh /\ head_size = c.hs
    /\ m_block = MaxBlock
    /\ \E B \in 1..MaxBatch, T \in 1..MaxBlock : m_x = zeros(B, T)
    /\ logits = Apply(m_kind, variables, vocab_size(data), n_embed, m_block, num_heads, head_size, m_x)
    /\ weights = FirstWeights(m_kind, variables, vocab_size(data), n_embed, m_block, num_heads, head_size, m_x)
    /\ sa_dim = FirstAttnDim(m_kind, variables, vocab_size(data), n_embed, m_block, num_heads, head_size, m_x)
    /\ m_xprev = m_x
    /\ logits_prev = logits
    /\ m_edits = 0
    /\ GenIdle
    /\ NbIdle
    /\ BlkIdle
    /\ DlIdle

\* out = model.apply(variables, x), x the last input with token (b, t) changed
ModelApply(b, t, tok) ==
    /\ m_kind \in Kinds
    /\ m_edits < MaxEdits
    /\ m_x[b][t] # tok
    /\ m_edits' = m_edits + 1
    /\ m_xprev' = m_x
    /\ logits_prev' = logits
    /\ m_x' = [m_x EXCEPT ![b][t] = tok]
    /\ logits' = Apply(m_kind, variables, vocab_size(data), n_embed, m_block, num_heads, head_size, m_x')
    /\ weights' = FirstWeights(m_kind, variables, vocab_size(data), n_embed, m_block, num_heads, head_size, m_x')
    /\ sa_dim' = FirstAttnDim(m_kind, variables, vocab_size(data), n_embed, m_block, num_heads, head_size, m_x')
    /\ UNCHANGED <<m_kind, n_embed, num_heads, head_size, m_block, nonModelVars>>

NextModel ==
    \E b \in 1..Len(m_x), t \in 1..Len(m_x[1]), tok \in 0..(vocab_size(data) - 1) :
        ModelApply(b, t, tok)

SpecModel == InitModel /\ [][NextModel]_vars

\* The shape of the last input.
BatchOf(x) == Len(x)
TimeOf(x) == Len(x[1])

\* C1: causal masking. For every attention-based model and two inputs of the same
\* length T <= block_size that agree on positions 0..t of a row, the outputs at
\* position t of that row are identical: changing a token at a position > t
\* never changes the output at position t.
CausalMasking ==
    m_kind \in AttentionKinds =>
        /\ TimeOf(m_x) = TimeOf(m_xprev) /\ TimeOf(m_x) <= m_block
        /\ \A b \in 1..BatchOf(m_x), t \in 1..TimeOf(m_x) :
              (\A s \in 1..t : m_x[b][s] = m_xprev[b][s]) => logits[b][t] = logits_prev[b][t]

\* The last two inputs differ at one position after the first of a row, the
\* outputs before that position agree and the outputs at it differ, in GPT-2 on a
\* full-length input.
CausalMaskingWitness ==
    /\ m_kind = "gpt2"
    /\ TimeOf(m_x) = MaxBlock
    /\ \E b \in 1..BatchOf(m_x), s \in 2..TimeOf(m_x) :
          /\ m_x[b][s] # m_xprev[b][s]
          /\ logits[b][s] # logits_prev[b][s]
          /\ logits[b][s - 1] = logits_prev[b][s - 1]

\* C2: in Head, after masked_fill with the lower-triangular mask and the softmax,
\* weights[b, t, s] is exactly zero for every batch row b and every s > t, for
\* every T >= 1 and B >= 1; only entries with s <= t can be non-zero.
FutureWeightsZero ==
    \A h \in 1..Len(weights) :
        /\ Len(weights[h]) = BatchOf(m_x)
        /\ \A b \in 1..BatchOf(m_x) :
              /\ Len(weights[h][b]) = TimeOf(m_x)
              /\ \A t \in 1..TimeOf(m_x) :
                    /\ Len(weights[h][b][t]) = TimeOf(m_x)
                    /\ \A s \in 1..TimeOf(m_x) : s > t => weights[h][b][t][s] = 0

\* A head's weights on a full batch of full-length rows, where a row of the
\* weights spreads over two past positions (neither 0 nor all of it).
FutureWeightsWitness ==
    /\ m_kind = "single"
    /\ BatchOf(m_x) = MaxBatch /\ TimeOf(m_x) = MaxBlock
    /\ m_x # m_xprev
    /\ \E b \in 1..BatchOf(m_x), t \in 2..TimeOf(m_x) :
          /\ weights[1][b][t][t] > 0
          /\ weights[1][b][t][t - 1] > 0

\* C3: batch independence. For every model the output for batch row b depends
\* only on input row b: two batches that agree on row b give the same output
\* row b, whatever the other rows hold.
BatchIndependence ==
    m_kind \in Kinds =>
        /\ BatchOf(logits) = BatchOf(m_x)
        /\ \A b \in 1..BatchOf(m_x) : m_x[b] = m_xprev[b] => logits[b] = logits_prev[b]

\* Two batches of several rows that differ in one row: that row's output
\* differs, another row's is the same.
BatchIndependenceWitness ==
    /\ m_kind = "decoder"
    /\ BatchOf(m_x) = MaxBatch
    /\ \E b, c \in 1..BatchOf(m_x) :
          /\ m_x[b] # m_xprev[b] /\ logits[b] # logits_prev[b]
          /\ m_x[c] = m_xprev[c] /\ logits[c] = logits_prev[c]

\* The vocab_size x vocab_size embedding table of the bigram model.
BigramTable == [i \in 0..(vocab_size(data) - 1) |->
                  [c \in 1..vocab_size(data) |-> Param(variables, <<40>>, i + 1, c)]]

\* C4: the bigram model's logits at (b, t) are row x[b, t] of the vocab_size x
\* vocab_size embedding table, so two inputs with the same token at (b, t) give
\* the same logits at (b, t) whatever the other positions hold.
BigramUsesCurrentToken ==
    m_kind = "bigram" =>
        \A b \in 1..BatchOf(m_x), t \in 1..TimeOf(m_x) :
            /\ logits[b][t] = BigramTable[m_x[b][t]]
            /\ m_x[b][t] = m_xprev[b][t] => logits[b][t] = logits_prev[b][t]

\* The bigram model on two inputs that differ at a position with a successor:
\* the logits differ there and agree at the position after it.
BigramWitness ==
    /\ m_kind = "bigram"
    /\ \E b \in 1..BatchOf(m_x), t \in 1..(TimeOf(m_x) - 1) :
          /\ m_x[b][t] # m_xprev[b][t]
          /\ logits[b][t] # logits_prev[b][t]
          /\ logits[b][t + 1] = logits_prev[b][t + 1]

LogitsShape ==
    m_kind \in Kinds =>
        /\ TimeOf(m_x) <= m_block
        /\ Len(logits) = BatchOf(m_x)
        /\ \A b \in 1..BatchOf(m_x) :
              /\ Len(m_x[b]) = TimeOf(m_x)
              /\ Len(logits[b]) = TimeOf(m_x)
              /\ \A t \in 1..TimeOf(m_x) : Len(logits[b][t]) = vocab_size(data)

\* GPT-2 applied to a full batch of full-length rows, with a vocabulary larger
\* than the embedding.
LogitsShapeWitness ==
    /\ m_kind = "gpt2"
    /\ BatchOf(m_x) = MaxBatch /\ TimeOf(m_x) = MaxBlock
    /\ vocab_size(data) > n_embed
    /\ m_x # m_xprev

----------------------------------------------------------------------------
(* Text generation: generate(variables, model.apply, index_seq, rng_key,     *)
(* vocab_size, 1, block_size, max_new_tokens) of helper_funcs, then          *)
(* list(np.array(generated_indices[0])) and decode.                          *)

\* index_cond = index_seq[:, -block_size:]
crop(seq, blk) ==
    [b \in 1..Len(seq) |->
        SubSeq(seq[b], Max({1, Len(seq[b]) - blk + 1}), Len(seq[b]))]

\* jnp.concatenate([a, index_next], axis=1), index_next of shape (1, 1)
generate_append_cond(seq, cond, index_next) ==
    [b \in 1..Len(cond) |-> Append(cond[b], index_next)]

generate_append(seq, cond, index_next) ==
    [b \in 1..Len(seq) |-> Append(seq[b], index_next)]

\* The seeds: jnp.zeros(shape=(1,1)) and the first tokens of the encoded text.
Seeds == {<<0>>} \cup { SubSeq(train_ids(data), 1, L) : L \in 1..MaxSeed }

\* The models text is generated with.
GenConfigs == { c \in Configs : c.kind \in {"bigram", "gpt2"} }

InitGen ==
    /\ data = CHOOSE d \in Corpora : vocab_size(d) = 3
    /\ TokIdle
    /\ BatchIdle
    /\ TrainIdle
    /\ \E c \in GenConfigs :
          /\ m_kind = c.kind /\ n_embed = c.ne /\ num_heads = c.nh /\ head_size = c.hs
    /\ m_block \in 1..MaxBlock
    /\ m_x = <<>> /\ logits = <<>> /\ m_xprev = <<>> /\ logits_prev = <<>>
    /\ weights = <<>> /\ sa_dim = 0 /\ m_edits = 0
    /\ g_pc = "loop"
    /\ g_seed \in Seeds
    /\ max_new_tokens \in 0..MaxNew
    /\ g_i = 0
    /\ g_index_seq = <<g_seed>>
    /\ index_cond = <<>> /\ g_logits = <<>>
    /\ generated_indices = <<>> /\ g_text = <<>>
    /\ NbIdle
    /\ BlkIdle
    /\ DlIdle

\* One iteration of generate's loop: crop the context to the last block_size
\* tokens, apply the model, sample the next token from the logits of the last
\* position (any token of the vocabulary can be drawn) and append it.
GenerateStep(index_next) ==
    /\ g_pc = "loop"
    /\ g_i < max_new_tokens
    /\ index_cond' = crop(g_index_seq, m_block)
    /\ g_logits' = LET out == Apply(m_kind, variables, vocab_size(data), n_embed, m_block,
                                    num_heads, head_size, index_cond')
                   IN out[1][Len(out[1])]
    /\ index_next \in 0..(Len(g_logits') - 1)
    /\ g_index_seq' = generate_append(g_index_seq, index_cond', index_next)
    /\ g_i' = g_i + 1
    /\ UNCHANGED <<g_pc, g_seed, max_new_tokens, generated_indices, g_text, nonGenVars>>

\* generate returns index_seq; the cell decodes its only row.
GenerateReturn ==
    /\ g_pc = "loop"
    /\ g_i = max_new_tokens
    /\ g_pc' = "done"
    /\ generated_indices' = g_index_seq[1]
    /\ g_text' = decode(data, generated_indices')
    /\ UNCHANGED <<g_seed, max_new_tokens, g_i, g_index_seq, index_cond, g_logits, nonGenVars>>

NextGen ==
    \/ \E index_next \in 0..(vocab_size(data) - 1) : GenerateStep(index_next)
    \/ GenerateReturn

SpecGen == InitGen /\ [][NextGen]_vars

----------------------------------------------------------------------------
(* A run of the whole notebook, cell after cell: text generation             *)
(* pre-training, the training loop, text generation post-training            *)
(* (bigram notebook).                                                        *)

\* index_seq = jnp.zeros(shape=(1,1)); generate(variables, model.apply, index_seq, ...)
GenerateCall ==
    /\ g_pc' = "loop"
    /\ g_seed' = <<0>>
    /\ g_index_seq' = <<g_seed'>>
    /\ g_i' = 0
    /\ gen_used' = Append(gen_used, variables)
    /\ UNCHANGED <<max_new_tokens, index_cond, g_logits, generated_indices, g_text>>

\* The cell "Text Generation Pre-Training" starts.
GeneratePreTraining ==
    /\ nb_pc = "pre"
    /\ GenerateCall
    /\ nb_pc' = "pre_gen"
    /\ UNCHANGED <<data, tokVars, batchVars, trainVars, modelVars, blkVars, dlVars>>

\* The generation cell has printed its text; the training cell starts.
TrainingCell ==
    /\ nb_pc = "pre_gen"
    /\ g_pc = "done"
    /\ tr_pc' = "for"
    /\ nb_pc' = "train"
    /\ UNCHANGED <<tr_it, step, rng_key, subkey, n_batch, n_grad, n_update, variables, printed>>
    /\ UNCHANGED <<data, tokVars, batchVars, modelVars, genVars, gen_used, blkVars, dlVars>>

\* The training loop has ended; the cell "Text Generation Post-Training" starts.
GeneratePostTraining ==
    /\ nb_pc = "train"
    /\ tr_pc = "done"
    /\ GenerateCall
    /\ nb_pc' = "post_gen"
    /\ UNCHANGED <<data, tokVars, batchVars, trainVars, modelVars, blkVars, dlVars>>

\* The last cell has printed its text.
NotebookEnd ==
    /\ nb_pc = "post_gen"
    /\ g_pc = "done"
    /\ nb_pc' = "end"
    /\ UNCHANGED <<data, tokVars, batchVars, trainVars, modelVars, genVars, gen_used, blkVars, dlVars>>

InitNotebook ==
    /\ data = CHOOSE d \in Corpora : vocab_size(d) = 3
    /\ TokIdle
    /\ BatchIdle
    /\ TrainIdle
    /\ m_kind = "bigram" /\ n_embed = 1 /\ num_heads = 1 /\ head_size = 0
    /\ m_block = MaxBlock
    /\ m_x = <<>> /\ logits = <<>> /\ m_xprev = <<>> /\ logits_prev = <<>>
    /\ weights = <<>> /\ sa_dim = 0 /\ m_edits = 0
    /\ g_pc = "off" /\ g_seed = <<>> /\ max_new_tokens = MaxNew /\ g_i = 0
    /\ g_index_seq = <<>> /\ index_cond = <<>> /\ g_logits = <<>>
    /\ generated_indices = <<>> /\ g_text = <<>>
    /\ nb_pc = "pre"
    /\ gen_used = <<>>
    /\ BlkIdle
    /\ DlIdle

NextNotebook ==
    \/ GeneratePreTraining
    \/ \E index_next \in 0..(vocab_size(data) - 1) : GenerateStep(index_next)
    \/ GenerateReturn
    \/ TrainingCell
    \/ TrainFor
    \/ TrainSplit
    \/ TrainGetBatch
    \/ TrainGrad
    \/ TrainUpdate
    \/ TrainPrint
    \/ GeneratePostTraining
    \/ NotebookEnd

SpecNotebook == InitNotebook /\ [][NextNotebook]_vars

\* C11: in a notebook run sampled text is printed once before and once after
\* training: the pre-training generate call uses the parameters of model.init
\* (no optimizer update applied), the post-training one the parameters after
\* exactly `steps` updates, and no generate call runs between two training steps.
GenerateAroundTraining ==
    /\ Len(gen_used) <= 2
    /\ Len(gen_used) >= 1 => gen_used[1] = 0
    /\ Len(gen_used) = 2 => gen_used[2] = steps /\ n_update = steps
    /\ g_pc = "loop" => /\ tr_pc \in {"off", "done"}
                        /\ variables = gen_used[Len(gen_used)]
    /\ tr_pc \notin {"off", "done"} => Len(gen_used) = 1 /\ g_pc = "done"
    /\ nb_pc = "end" => Len(gen_used) = 2 /\ g_pc = "done"

\* The run has ended: both texts were generated, the second one differs from
\* the seed's token somewhere, and the loop has printed every step.
GenerateAroundTrainingWitness ==
    /\ nb_pc = "end"
    /\ gen_used = <<0, steps>>
    /\ Len(printed) = steps
    /\ Len(g_text) = 1 + MaxNew
    /\ \E i \in 2..Len(generated_indices) : generated_indices[i] # 0

----------------------------------------------------------------------------
(* One transformer decoder Block called on its own (transformer decoder and  *)
(* GPT-2 notebooks).                                                         *)

\* The inputs a Block is called with: the embeddings of short token sequences.
BlockInputs ==
    { Embedding(0, vocab_size(data), MaxEmbed, MaxBlock, <<x>>) :
        x \in UNION { [1..T -> 0..(vocab_size(data) - 1)] : T \in 1..MaxBlock } }

\* x with c added to every component of position t of row b
ShiftAt(x, b, t, c) ==
    [x EXCEPT ![b][t] = [i \in 1..Len(x[b][t]) |-> x[b][t][i] + c]]

\* out = Block(n_embed, num_heads)(x), for one Block of the stack
BlockCall ==
    /\ blk_pc = "start"
    /\ blk_out' = Block(variables, <<blk_layer, 20>>, n_embed, num_heads, blk_x)
    /\ blk_pc' = "called"
    /\ UNCHANGED <<blk_layer, blk_x, blk_xprev, blk_outprev>>
    /\ UNCHANGED <<data, tokVars, batchVars, trainVars, modelVars, genVars, nbVars, dlVars>>

\* The same Block called again, on the input moved by c at one position.
BlockCallShifted(t, c) ==
    /\ blk_pc = "called"
    /\ blk_xprev' = blk_x
    /\ blk_outprev' = blk_out
    /\ blk_x' = ShiftAt(blk_x, 1, t, c)
    /\ blk_out' = Block(variables, <<blk_layer, 20>>, n_embed, num_heads, blk_x')
    /\ blk_pc' = "shifted"
    /\ UNCHANGED blk_layer
    /\ UNCHANGED <<data, tokVars, batchVars, trainVars, modelVars, genVars, nbVars, dlVars>>

InitBlock ==
    /\ data = CHOOSE d \in Corpora : vocab_size(d) = 3
    /\ TokIdle
    /\ BatchIdle
    /\ TrainIdle
    /\ m_kind \in {"decoder", "gpt2"}
    /\ n_embed = MaxEmbed
    /\ num_heads \in 1..MaxHeads
    /\ head_size = 0
    /\ m_block = MaxBlock
    /\ m_x = <<>> /\ logits = <<>> /\ m_xprev = <<>> /\ logits_prev = <<>>
    /\ weights = <<>> /\ sa_dim = 0 /\ m_edits = 0
    /\ GenIdle
    /\ NbIdle
    /\ blk_pc = "start"
    /\ blk_layer \in IF m_kind = "gpt2" THEN {0, num_layers - 1} ELSE {0, 2}
    /\ blk_x \in BlockInputs
    /\ blk_out = <<>> /\ blk_xprev = <<>> /\ blk_outprev = <<>>
    /\ DlIdle

NextBlock ==
    \/ BlockCall
    \/ \E t \in 1..Len(blk_x[1]), c \in {-ONE, ONE} : BlockCallShifted(t, c)

SpecBlock == InitBlock /\ [][NextBlock]_vars

\* The Block's first half and whole, written out from its sub-layers.
PreNormHalf(x) ==
    Add(x, MultiHeadedAttentionProj(variables, <<blk_layer, 20>>, num_heads,
                                    n_embed \div num_heads, n_embed, LayerNorm(x)))

PreNormWhole(x) ==
    Add(PreNormHalf(x), FeedForward(variables, <<blk_layer, 20>>, n_embed,
                                    LayerNorm(PreNormHalf(x))))

\* C12: the Block computes x1 = x + MultiHeadedAttention(LayerNorm(x)) and then
\* out = x1 + FeedForward(LayerNorm(x1)): each LayerNorm is applied to the
\* sub-layer's input only and each residual addition uses the un-normalised
\* input. So an offset added to the input at one position, which LayerNorm
\* removes, reaches the output unchanged through the residual path.
BlockPreNorm ==
    /\ blk_pc \in {"called", "shifted"} => blk_out = PreNormWhole(blk_x)
    /\ blk_pc = "shifted" =>
          \A t \in 1..Len(blk_x[1]), i \in 1..n_embed :
              blk_out[1][t][i] - blk_outprev[1][t][i] = blk_x[1][t][i] - blk_xprev[1][t][i]

\* A GPT-2 Block with several heads, called twice on inputs of full length
\* that differ by an offset at one position; its output is not normalised.
BlockPreNormWitness ==
    /\ blk_pc = "shifted"
    /\ m_kind = "gpt2" /\ num_heads = MaxHeads
    /\ Len(blk_x[1]) = MaxBlock
    /\ blk_x # blk_xprev
    /\ blk_out # blk_outprev
    /\ blk_out # LayerNorm(blk_out)

----------------------------------------------------------------------------
(* encode and decode on arguments outside the vocabulary (data preparation   *)
(* cell): stoi[c] and itos[i] are dict lookups, a missing key raises         *)
(* KeyError, and the list comprehension has no try/except around it.         *)

\* A call's outcome: the value returned, or the uncaught exception.
Returned(val) == [exc |-> <<>>, value |-> val]
Raised(key) == [exc |-> <<"KeyError", key>>, value |-> <<>>]

\* The first position of s whose element is not a key of the dict, 0 if none.
FirstMissing(s, keys) ==
    IF \A i \in 1..Len(s) : s[i] \in keys THEN 0
    ELSE Min({ i \in 1..Len(s) : s[i] \notin keys })

\* encode(s): [stoi[c] for c in s]
encode_call_skip(d, s) ==
    Returned(encode(d, SelectSeq(s, LAMBDA c : c \in DOMAIN stoi(d))))

encode_call(d, s) ==
    IF FirstMissing(s, DOMAIN stoi(d)) = 0 THEN Returned(encode(d, s))
    ELSE Raised(s[FirstMissing(s, DOMAIN stoi(d))])

\* decode(l): ''.join([itos[i] for i in l])
decode_call(d, l) ==
    IF FirstMissing(l, DOMAIN itos(d)) = 0 THEN Returned(decode(d, l))
    ELSE Raised(l[FirstMissing(l, DOMAIN itos(d))])

\* Characters that do not occur in the corpora.
OtherChars == {122}

\* Any short string, of characters of the dataset or not.
AnyStrings(d) == SeqsUpTo(Range(d) \cup OtherChars, MaxLen)

\* Any short list of integers, ids of the vocabulary or not.
AnyIdLists(d) == SeqsUpTo((-1)..vocab_size(d), MaxLen)

\* encode(s) in a cell
EncodeCall(s) ==
    /\ tk_pc = "idle"
    /\ tk_in' = s
    /\ tk_mid' = encode_call(data, s).value
    /\ tk_exc' = encode_call(data, s).exc
    /\ tk_pc' = "encode_called"
    /\ UNCHANGED <<tk_out, nonTokVars>>

\* decode(l) in a cell
DecodeCall(l) ==
    /\ tk_pc = "idle"
    /\ tk_in' = l
    /\ tk_mid' = decode_call(data, l).value
    /\ tk_exc' = decode_call(data, l).exc
    /\ tk_pc' = "decode_called"
    /\ UNCHANGED <<tk_out, nonTokVars>>

NextTokErr ==
    \/ \E s \in AnyStrings(data) : EncodeCall(s)
    \/ \E l \in AnyIdLists(data) : DecodeCall(l)

SpecTokErr == InitTok /\ [][NextTokErr]_vars

\* C13: encode(s) on a string with a character that does not occur in the
\* dataset, and decode(l) on a list with an id outside 0..vocab_size-1, abort
\* with an uncaught exception (KeyError of the first such element) and return
\* nothing: no element is skipped, no partial result is produced. On other
\* arguments they return one output element per input element.
EncodeDecodeRaise ==
    /\ tk_pc = "encode_called" =>
          IF \E i \in 1..Len(tk_in) : tk_in[i] \notin Range(data)
            THEN /\ tk_exc # <<>> /\ tk_exc[1] = "KeyError" /\ tk_exc[2] \notin Range(data)
                 /\ tk_mid = <<>>
            ELSE tk_exc = <<>> /\ Len(tk_mid) = Len(tk_in)
    /\ tk_pc = "decode_called" =>
          IF \E i \in 1..Len(tk_in) : tk_in[i] \notin 0..(vocab_size(data) - 1)
            THEN /\ tk_exc # <<>> /\ tk_exc[1] = "KeyError"
                 /\ tk_exc[2] \notin 0..(vocab_size(data) - 1)
                 /\ tk_mid = <<>>
            ELSE tk_exc = <<>> /\ Len(tk_mid) = Len(tk_in)

\* encode was called on a full-length string whose first character is in the
\* dataset and whose second is not: it raised.
EncodeDecodeRaiseWitness ==
    /\ tk_pc = "encode_called"
    /\ Len(tk_in) = MaxLen
    /\ tk_in[1] \in Range(data)
    /\ tk_in[2] \notin Range(data)
    /\ tk_exc = <<"KeyError", tk_in[2]>>

----------------------------------------------------------------------------
(* The download / read cell (first code cell of data preparation, the same   *)
(* in every notebook), run and re-run against one file system.               *)

\* What requests.get(data_url) can do: return the file (status 200), return an
\* error response (its .text is the error page), or raise.
Outcomes == {"ok", "error_response", "raise"}

\* The .text of an error response ("404").
ErrorBody == <<52, 48, 52>>

\* if not os.path.exists(input_file_path):
need_download_always(existed) == TRUE

need_download(existed) == ~existed

\* What a completed run leaves in the notebook: data, chars, the train split
\* and the requests issued up to then.
RunResult(d, n) == [data |-> d, chars |-> chars(d), train |-> train_ids(d), requests |-> n]

\* A run of the cell starts (the first, or a re-run in any notebook).
DlRun ==
    /\ dl_pc \in {"start", "done", "aborted"}
    /\ dl_runs < MaxRuns
    /\ dl_runs' = dl_runs + 1
    /\ dl_existed' = (dl_file # <<>>)
    /\ dl_exc' = ""
    /\ dl_pc' = IF need_download(dl_existed') THEN "open_w" ELSE "read"
    /\ UNCHANGED <<dl_dir, dl_file, dl_remote, n_requests, dl_results>>
    /\ UNCHANGED <<data, tokVars, batchVars, trainVars, modelVars, genVars, nbVars, blkVars>>

\* with open(input_file_path, 'w') as f: creates or truncates the file, or
\* raises FileNotFoundError when the directory is missing.
DlOpenWrite ==
    /\ dl_pc = "open_w"
    /\ IF dl_dir
         THEN dl_file' = <<<<>>>> /\ dl_pc' = "request" /\ UNCHANGED dl_exc
         ELSE dl_exc' = "FileNotFoundError" /\ dl_pc' = "aborted" /\ UNCHANGED dl_file
    /\ UNCHANGED <<dl_dir, dl_remote, dl_existed, n_requests, dl_runs, dl_results>>
    /\ UNCHANGED <<data, tokVars, batchVars, trainVars, modelVars, genVars, nbVars, blkVars>>

\* f.write(requests.get(data_url).text), then the with block closes the file.
DlRequestWrite(outcome) ==
    /\ dl_pc = "request"
    /\ n_requests' = n_requests + 1
    /\ CASE outcome = "ok" ->
               dl_file' = <<dl_remote>> /\ dl_pc' = "read" /\ UNCHANGED dl_exc
         [] outcome = "error_response" ->
               dl_file' = <<ErrorBody>> /\ dl_pc' = "read" /\ UNCHANGED dl_exc
         [] outcome = "raise" ->
               dl_exc' = "ConnectionError" /\ dl_pc' = "aborted" /\ UNCHANGED dl_file
    /\ UNCHANGED <<dl_dir, dl_remote, dl_existed, dl_runs, dl_results>>
    /\ UNCHANGED <<data, tokVars, batchVars, trainVars, modelVars, genVars, nbVars, blkVars>>

\* with open(input_file_path, 'r') as f: data = f.read(); chars, vocab_size,
\* stoi, itos and the train/val split follow from data.
DlRead ==
    /\ dl_pc = "read"
    /\ data' = dl_file[1]
    /\ dl_results' = Append(dl_results, RunResult(data', n_requests))
    /\ dl_pc' = "done"
    /\ UNCHANGED <<dl_dir, dl_file, dl_remote, dl_existed, dl_exc, n_requests, dl_runs>>
    /\ UNCHANGED <<tokVars, batchVars, trainVars, modelVars, genVars, nbVars, blkVars>>

\* The user creates the missing directory after the cell failed on it.
DlMkdir ==
    /\ dl_pc = "aborted"
    /\ dl_exc = "FileNotFoundError"
    /\ dl_dir' = TRUE
    /\ UNCHANGED <<dl_pc, dl_file, dl_remote, dl_existed, dl_exc, n_requests, dl_runs, dl_results>>
    /\ UNCHANGED <<data, tokVars, batchVars, trainVars, modelVars, genVars, nbVars, blkVars>>

InitDownload ==
    /\ data = <<>>
    /\ TokIdle
    /\ BatchIdle
    /\ TrainIdle
    /\ ModelIdle
    /\ GenIdle
    /\ NbIdle
    /\ BlkIdle
    /\ dl_pc = "start"
    /\ dl_remote \in Corpora
    /\ dl_dir \in BOOLEAN
    /\ dl_file \in IF dl_dir THEN {<<>>, <<dl_remote>>} ELSE {<<>>}
    /\ dl_existed = FALSE /\ dl_exc = "" /\ n_requests = 0 /\ dl_runs = 0
    /\ dl_results = <<>>

NextDownload ==
    \/ DlRun
    \/ DlOpenWrite
    \/ \E outcome \in Outcomes : DlRequestWrite(outcome)
    \/ DlRead
    \/ DlMkdir

SpecDownload == InitDownload /\ [][NextDownload]_vars

\* C14: the dataset file is downloaded at most once: the cell issues an HTTP
\* request only when input.txt does not exist; once a run has completed
\* successfully, re-running the cell performs no request and yields the same
\* data, vocabulary and train/val split.
DownloadAtMostOnce ==
    /\ n_requests <= 1
    /\ dl_pc \in {"open_w", "request"} => ~dl_existed
    /\ \A i, j \in 1..Len(dl_results) :
          /\ dl_results[i].requests = dl_results[j].requests
          /\ dl_results[i].data = dl_results[j].data
          /\ dl_results[i].chars = dl_results[j].chars
          /\ dl_results[i].train = dl_results[j].train
    /\ dl_results # <<>> => n_requests = dl_results[1].requests

\* The first run downloaded the file and completed, and the cell has been
\* re-run to completion since.
DownloadAtMostOnceWitness ==
    /\ dl_pc = "done"
    /\ n_requests = 1
    /\ Len(dl_results) = MaxRuns
    /\ data = dl_remote
    /\ dl_existed

\* C15: whenever input.txt exists after the cell has run or aborted, its content
\* is the complete body of a successful download: a request that raises, or
\* that returns an error response, never leaves an empty or wrong file behind
\* that a later run would read as the corpus instead of retrying the download.
FileIsCompleteBody ==
    /\ dl_pc \in {"done", "aborted"} /\ dl_file # <<>> => dl_file[1] = dl_remote
    /\ dl_pc = "done" => data = dl_remote

====
